---------------------------- MODULE Spec2Model ----------------------------
(***************************************************************************)
(* Model of the numeric cores of AirBuddy:                                 *)
(*   - the image pollution-source estimator (cv_aqi_detector.py,           *)
(*     yolo_detector.py, enhanced_aqi_detector.py),                        *)
(*   - the current-reading lookup, the anchored forecast and the store of  *)
(*     the per-city models (aqi_predictor.py).                             *)
(*                                                                         *)
(* Representation.                                                         *)
(*   None            : an optional integer is the empty sequence <<>> when *)
(*                     it is None and <<v>> when it carries v; an optional *)
(*                     label is the string "None".                         *)
(*   haziness        : thousandths (the code rounds to 3 decimals).        *)
(*   laplacian var   : half units (lapvar2 = 2 * variance).                *)
(*   area fractions  : percent.                                            *)
(*   PM2.5           : tenths of a microgram.                              *)
(*   forecast AQI    : millionths (Scale), so that 0.3 * excess is exact.  *)
(***************************************************************************)
EXTENDS Integers, Sequences, FiniteSets, TLC

VARIABLES
    call,        \* the inputs of the estimator call that produced `result`
    result,      \* the dict returned by the last estimator call
    reading,     \* the last get_current_aqi call: feeds, requests, dict
    pc,          \* predict_aqi: "idle", "loop" (in the for loop), "done"
                 \* (returned), "raised" (left by an exception)
    current_aqi, \* predict_aqi: the anchor, current['aqi']
    weather,     \* predict_aqi: the payload of get_weather_forecast
    aqi_history, \* predict_aqi: the rolling history
    trace,       \* predict_aqi: the locals of each iteration so far
    predictions, \* predict_aqi: the list being built, then returned
    request,     \* predict_aqi: the city asked for and what the feeds and
                 \* the model store answer during this request
    loaded,      \* predict_aqi: self.models[city], 0 while there is none
    files,       \* ml_models/: the model persisted under each key, 0 if none
    retrains,    \* the explicit train_model calls so far
    disk,        \* concurrent requests: the model file of one city
    worker,      \* concurrent requests: where each one is and what it has
    policy,      \* the Policy row: agree_count, disagree_count
    votes,       \* the PolicyVote rows of the policy: the vote of each user
    voter,       \* vote_policy: where each request is and what it holds
    served       \* the vote_policy requests answered so far

imageVars == <<call, result>>

readingVars == <<reading>>

forecastVars ==
    <<pc, current_aqi, weather, aqi_history, trace, predictions, request,
      loaded>>

storeVars == <<files, retrains>>

raceVars == <<disk, worker>>

voteVars == <<policy, votes, voter, served>>

vars == <<call, result, reading, pc, current_aqi, weather, aqi_history,
          trace, predictions, request, loaded, files, retrains, disk,
          worker, policy, votes, voter, served>>

NONE == <<>>

Min(a, b) == IF a <= b THEN a ELSE b

Max(a, b) == IF a >= b THEN a ELSE b

Abs(a) == IF a < 0 THEN -a ELSE a

(***************************************************************************)
(* cv_aqi_detector.py                                                      *)
(***************************************************************************)

\* calculate_haziness: 1 - min(1, var/500), in thousandths
HazeVarDivisor == 500

\* the brightness above which, with low contrast, the haze penalty applies
HazeBrightness == 180

HazeContrast == 30

\* the +0.3 penalty, in thousandths
HazePenalty == 300

\* the value returned when cv2 cannot read the image, in thousandths
HazeDefault == 500

NoHazePenalty(img) ==
    IF ~img.readable
    THEN HazeDefault
    ELSE 1000 - Min(1000, (img.lapvar2 * 1000) \div (2 * HazeVarDivisor))

calculate_haziness(img) ==
    IF ~img.readable
    THEN HazeDefault
    ELSE LET ratio == (img.lapvar2 * 1000) \div (2 * HazeVarDivisor)
             haziness == 1000 - Min(1000, ratio)
         IN  IF img.brightness > HazeBrightness /\ img.contrast < HazeContrast
             THEN Min(1000, haziness + HazePenalty)
             ELSE haziness

\* detect_pollution_source: the thresholds, in percent of the image area
FireRatio == 10

SmokeRatio == 30

DustRatio == 20

VehicleSmokeRatio == 10

SmokeBeforeFire(img) ==
    IF ~img.readable THEN "UNKNOWN"
    ELSE IF img.smoke > SmokeRatio THEN "SMOKE"
    ELSE IF img.fire > FireRatio THEN "FIRE"
    ELSE IF img.dust > DustRatio THEN "DUST"
    ELSE IF img.smoke > VehicleSmokeRatio THEN "VEHICLE"
    ELSE "UNKNOWN"

detect_pollution_source(img) ==
    IF ~img.readable THEN "UNKNOWN"
    ELSE IF img.fire > FireRatio THEN "FIRE"
    ELSE IF img.smoke > SmokeRatio THEN "SMOKE"
    ELSE IF img.dust > DustRatio THEN "DUST"
    ELSE IF img.smoke > VehicleSmokeRatio THEN "VEHICLE"
    ELSE "UNKNOWN"

\* The thousandths k for which the double nearest k/1000, times 100, falls
\* just below the integer k/10 (0.29 * 100 = 28.999999999999996).
FloatShort == {290, 570, 580}

RoundedRise(h) == (h + 5) \div 10

\* aqi_rise = int(haziness_score * 100)
haze_aqi_rise(h) ==
    IF h \in FloatShort THEN (h \div 10) - 1 ELSE h \div 10

\* the AQI the estimator reports when the learned model is not loaded
ModelFallbackAqi == 150

AqiCap == 500

\* if base_aqi: min(500, base_aqi + aqi_rise) else model_aqi
cv_predicted_aqi(base_aqi, aqi_rise, model_aqi) ==
    IF base_aqi # NONE /\ base_aqi[1] # 0
    THEN Min(AqiCap, base_aqi[1] + aqi_rise)
    ELSE model_aqi

cv_health_alert(predicted_aqi) ==
    IF predicted_aqi <= 100 THEN "LOW"
    ELSE IF predicted_aqi <= 200 THEN "MODERATE"
    ELSE IF predicted_aqi <= 300 THEN "HIGH"
    ELSE "SEVERE"

NoNeutralDefaults(base_aqi) ==
    [predicted_aqi |-> 150, base_aqi |-> base_aqi, aqi_rise |-> 0,
     haziness_score |-> 0, pollution_source |-> "None",
     health_alert_level |-> "MODERATE", model_available |-> FALSE,
     error |-> TRUE]

\* the dict of the except branch
cv_error_result(base_aqi) ==
    [predicted_aqi |-> 150, base_aqi |-> base_aqi, aqi_rise |-> 0,
     haziness_score |-> 500, pollution_source |-> "UNKNOWN",
     health_alert_level |-> "MODERATE", model_available |-> FALSE,
     error |-> TRUE]

\* CVAQIDetector.predict_aqi_from_image; `model` is NONE when the learned
\* model is not loaded and <<v>> when it predicts int(v) for this image.
cv_predict_aqi_from_image(img, base_aqi, model) ==
    IF ~img.decodes
    THEN cv_error_result(base_aqi)
    ELSE LET model_aqi == IF model # NONE THEN model[1] ELSE ModelFallbackAqi
             haziness_score == calculate_haziness(img)
             pollution_source == detect_pollution_source(img)
             aqi_rise == haze_aqi_rise(haziness_score)
             predicted_aqi == cv_predicted_aqi(base_aqi, aqi_rise, model_aqi)
         IN  [predicted_aqi |-> predicted_aqi, base_aqi |-> base_aqi,
              aqi_rise |-> aqi_rise, haziness_score |-> haziness_score,
              pollution_source |-> pollution_source,
              health_alert_level |-> cv_health_alert(predicted_aqi),
              model_available |-> (model # NONE), error |-> FALSE]

(***************************************************************************)
(* yolo_detector.py                                                        *)
(***************************************************************************)

\* the classes detect_objects keeps
PollutionClasses == {"car", "truck", "bus", "motorcycle", "bicycle", "train"}

\* pollution_categories['vehicles']
VehicleClasses == {"car", "truck", "bus", "motorcycle", "bicycle"}

HeavyClasses == {"truck", "bus", "train"}

\* aqi_impact.get(class_name, 0)
aqi_impact(class_name) ==
    CASE class_name = "car" -> 3
      [] class_name = "truck" -> 8
      [] class_name = "bus" -> 10
      [] class_name = "motorcycle" -> 2
      [] class_name = "bicycle" -> 0
      [] class_name = "train" -> 15
      [] OTHER -> 0

\* the loop over the boxes: the three accumulators after the whole list
RECURSIVE tally(_, _)
tally(boxes, acc) ==
    IF boxes = <<>> THEN acc
    ELSE LET class_name == Head(boxes)
             kept == class_name \in PollutionClasses
             next ==
                 [vehicle_count |->
                      IF kept /\ class_name \in VehicleClasses
                      THEN acc.vehicle_count + 1 ELSE acc.vehicle_count,
                  heavy_vehicle_count |->
                      IF kept /\ class_name \in HeavyClasses
                      THEN acc.heavy_vehicle_count + 1
                      ELSE acc.heavy_vehicle_count,
                  total_impact |->
                      IF kept THEN acc.total_impact + aqi_impact(class_name)
                      ELSE acc.total_impact]
         IN  tally(Tail(boxes), next)

\* _determine_source
determine_source(vehicle_count, heavy_vehicle_count) ==
    IF heavy_vehicle_count >= 3 THEN "CONSTRUCTION"
    ELSE IF vehicle_count >= 10 THEN "VEHICLE"
    ELSE IF vehicle_count >= 5 THEN "VEHICLE"
    ELSE "None"

\* the cap of the vehicle rise
VehicleRiseCap == 100

NoCongestion(vehicle_count, heavy_vehicle_count, total_impact) ==
    Min(total_impact, VehicleRiseCap)

\* _calculate_aqi_rise: int(base_rise) after the congestion multiplier
calculate_aqi_rise(vehicle_count, heavy_vehicle_count, total_impact) ==
    LET base_rise ==
            IF vehicle_count > 20 THEN (total_impact * 15) \div 10
            ELSE IF vehicle_count > 10 THEN (total_impact * 12) \div 10
            ELSE total_impact
    IN  Min(base_rise, VehicleRiseCap)

empty_result ==
    [vehicle_count |-> 0, heavy_vehicle_count |-> 0,
     pollution_source |-> "None", aqi_rise |-> 0, total_impact |-> 0,
     has_vehicles |-> FALSE, success |-> FALSE]

\* has_vehicles
has_vehicles(vehicle_count) == vehicle_count > 0

\* YOLOPollutionDetector.detect_objects; `yolo` is the state of the
\* detector: "no_model" (the weights failed to load), "raises" (the
\* detection throws) or "ok"; `boxes` the class names it finds.
detect_objects(yolo, boxes) ==
    IF yolo # "ok" THEN empty_result
    ELSE LET t == tally(boxes, [vehicle_count |-> 0, heavy_vehicle_count |-> 0,
                                total_impact |-> 0])
         IN  [vehicle_count |-> t.vehicle_count,
              heavy_vehicle_count |-> t.heavy_vehicle_count,
              pollution_source |->
                  determine_source(t.vehicle_count, t.heavy_vehicle_count),
              aqi_rise |-> calculate_aqi_rise(t.vehicle_count,
                              t.heavy_vehicle_count, t.total_impact),
              total_impact |-> t.total_impact,
              has_vehicles |-> has_vehicles(t.vehicle_count),
              success |-> TRUE]

(***************************************************************************)
(* enhanced_aqi_detector.py                                                *)
(***************************************************************************)

\* the vehicle rise above which both sources count as significant
SignificantRise == 20

NoSmokePriority(cv_source, cv_rise, yolo_source, vehicle_aqi_rise) ==
    IF vehicle_aqi_rise > cv_rise THEN yolo_source
    ELSE IF vehicle_aqi_rise > SignificantRise THEN yolo_source
    ELSE cv_source

\* lines 70-77: the source kept when vehicles were counted
combine_source(cv_source, cv_rise, yolo_source, vehicle_aqi_rise) ==
    IF vehicle_aqi_rise > cv_rise THEN yolo_source
    ELSE IF vehicle_aqi_rise > SignificantRise
         THEN IF cv_source = "SMOKE" THEN "SMOKE" ELSE yolo_source
         ELSE cv_source

enhanced_health_alert(predicted_aqi) ==
    IF predicted_aqi > 300 THEN "SEVERE"
    ELSE IF predicted_aqi > 200 THEN "HIGH"
    ELSE IF predicted_aqi > 150 THEN "MODERATE"
    ELSE "LOW"

\* EnhancedAQIDetector.predict_aqi_from_image; yolo = "unavailable" is the
\* failed import (YOLO_AVAILABLE False).  base_aqi + combined_aqi_rise
\* throws a TypeError when base_aqi is None, and the except branch then
\* returns the CV-only prediction.
enhanced_predict_aqi_from_image(img, base_aqi, model, yolo, boxes) ==
    LET cv_result == cv_predict_aqi_from_image(img, base_aqi, model)
    IN  IF yolo = "unavailable" THEN cv_result
        ELSE LET yolo_result == detect_objects(yolo, boxes)
                 combined_aqi_rise ==
                     IF yolo_result.has_vehicles
                     THEN cv_result.aqi_rise + yolo_result.aqi_rise
                     ELSE cv_result.aqi_rise
                 combined_source ==
                     IF yolo_result.has_vehicles
                     THEN combine_source(cv_result.pollution_source,
                              cv_result.aqi_rise, yolo_result.pollution_source,
                              yolo_result.aqi_rise)
                     ELSE cv_result.pollution_source
             IN  IF base_aqi = NONE
                 THEN cv_predict_aqi_from_image(img, base_aqi, model)
                 ELSE LET predicted_aqi ==
                              Min(AqiCap, base_aqi[1] + combined_aqi_rise)
                      IN  [predicted_aqi |-> predicted_aqi,
                           aqi_rise |-> combined_aqi_rise,
                           pollution_source |-> combined_source,
                           health_alert_level |->
                               enhanced_health_alert(predicted_aqi),
                           haziness_score |-> cv_result.haziness_score,
                           cv_pollution_source |-> cv_result.pollution_source,
                           cv_aqi_rise |-> cv_result.aqi_rise,
                           vehicle_count |-> yolo_result.vehicle_count,
                           heavy_vehicle_count |->
                               yolo_result.heavy_vehicle_count,
                           yolo_pollution_source |->
                               yolo_result.pollution_source,
                           yolo_aqi_rise |-> yolo_result.aqi_rise,
                           base_aqi |-> base_aqi, success |-> TRUE]

(***************************************************************************)
(* aqi_predictor.py                                                        *)
(***************************************************************************)

\* the AQI of the reading returned when both feeds fail
DefaultAqi == 150

RoundDiv(a, b) == (2 * a + b) \div (2 * b)

\* int(x) of the quotient a / b, b > 0: truncation toward zero
TruncDiv(a, b) == IF a >= 0 THEN a \div b ELSE -((-a) \div b)

\* calculate_aqi_from_pm25, pm25 in tenths
calculate_aqi_from_pm25(pm25) ==
    IF pm25 <= 120 THEN TruncDiv(50 * pm25, 120)
    ELSE IF pm25 <= 354 THEN TruncDiv(49 * (pm25 - 121) + 51 * 233, 233)
    ELSE IF pm25 <= 554 THEN TruncDiv(49 * (pm25 - 355) + 101 * 199, 199)
    ELSE IF pm25 <= 1504 THEN TruncDiv(49 * (pm25 - 555) + 151 * 949, 949)
    ELSE IF pm25 <= 2504 THEN TruncDiv(99 * (pm25 - 1505) + 201 * 999, 999)
    ELSE IF pm25 <= 3504 THEN TruncDiv(99 * (pm25 - 2505) + 301 * 999, 999)
    ELSE TruncDiv(99 * (pm25 - 3505) + 401 * 1499, 1499)

\* The outcomes of the primary feed (api.waqi.info): "ok" is a 200 answer
\* with status ok and the fields read; "error" a timeout or connection
\* error; "http" another status code; "notok" a 200 answer whose status is
\* not ok; "malformed" a 200 answer a field of which is missing.
PrimaryFailures == {"error", "http", "notok", "malformed"}

\* The outcomes of the secondary feed (openweathermap): the geocoding
\* request, then the air-pollution request.
SecondaryFailures == {"geo_error", "geo_http", "geo_empty", "air_error",
                      "air_http", "air_malformed"}

\* the requests sent to reach an outcome of the secondary feed
secondary_requests(kind) ==
    IF kind \in {"geo_error", "geo_http", "geo_empty"}
    THEN <<"geo">>
    ELSE <<"geo", "air">>

BothFeedsAlways(city, primary, secondary) ==
    [aqi |-> IF primary.kind = "ok" THEN primary.aqi
             ELSE IF secondary.kind = "ok"
             THEN calculate_aqi_from_pm25(secondary.pm25)
             ELSE DefaultAqi,
     pm25 |-> IF primary.kind = "ok" THEN primary.pm25 ELSE secondary.pm25,
     city |-> IF primary.kind = "ok" THEN primary.city ELSE city,
     source |-> IF primary.kind = "ok" THEN "primary"
                ELSE IF secondary.kind = "ok" THEN "secondary"
                ELSE "default",
     requests |-> <<"waqi">> \o secondary_requests(secondary.kind)]

\* AQIMLPredictor.get_current_aqi: the dict returned and, beside it, the
\* requests sent, in order
get_current_aqi(city, primary, secondary) ==
    IF primary.kind = "ok"
    THEN [aqi |-> primary.aqi, pm25 |-> primary.pm25,
          city |-> primary.city, source |-> "primary",
          requests |-> <<"waqi">>]
    ELSE IF secondary.kind = "ok"
    THEN [aqi |-> calculate_aqi_from_pm25(secondary.pm25),
          pm25 |-> secondary.pm25, city |-> city, source |-> "secondary",
          requests |-> <<"waqi">> \o secondary_requests(secondary.kind)]
    ELSE [aqi |-> DefaultAqi, pm25 |-> 0, city |-> city,
          source |-> "default",
          requests |-> <<"waqi">> \o secondary_requests(secondary.kind)]

\* str.lower() on the characters of the city names
lower(ch) ==
    CASE ch = "D" -> "d"
      [] ch = "N" -> "n"
      [] OTHER -> ch

\* get_model_path: city.replace(" ", "_").lower(); a name is the sequence
\* of its characters, the path is told by the normalised name
get_model_path(city) ==
    [i \in 1..Len(city) |-> lower(IF city[i] = " " THEN "_" ELSE city[i])]

\* The model store answers a request in one of three ways: "ok"; an
\* existing file cannot be unpickled ("unreadable"); a file cannot be
\* opened for writing ("unwritable").
StoreAnswers == {"ok", "unreadable", "unwritable"}

\* train_model fits a new regressor: the artifact is told from the
\* earlier ones by its number
new_model(fs) ==
    1 + (CHOOSE m \in {fs[k] : k \in DOMAIN fs} \cup {0} :
            \A k \in DOMAIN fs : fs[k] <= m)

\* save_model: the files after pickle.dump of the model under the key
save_model(fs, key, model) == [fs EXCEPT ![key] = model]

RetrainEveryRequest(fs, city, io) ==
    [loaded |-> new_model(fs),
     files |-> save_model(fs, get_model_path(city), new_model(fs)),
     raised |-> FALSE]

\* lines 238-246 of predict_aqi: load the persisted model or train one.
\* The outcome: the model in self.models, the files, whether it raised.
load_or_train(fs, city, io) ==
    LET key == get_model_path(city)
    IN  IF fs[key] # 0
        THEN IF io = "unreadable"
             THEN [loaded |-> 0, files |-> fs, raised |-> TRUE]
             ELSE [loaded |-> fs[key], files |-> fs, raised |-> FALSE]
        ELSE IF io = "unwritable"
             THEN [loaded |-> new_model(fs), files |-> fs, raised |-> TRUE]
             ELSE [loaded |-> new_model(fs),
                   files |-> save_model(fs, key, new_model(fs)),
                   raised |-> FALSE]

\* pickle.dump writes the artifact {'model': ..., 'scaler': ...} through a
\* buffered file: the parts reach the file one after another
ArtifactParts == 2

\* the file right after open(model_path, 'wb'): it exists and is empty
truncated == [exists |-> TRUE, parts |-> [i \in 1..ArtifactParts |-> 0]]

\* the file after one more part of the artifact of `model` is written at
\* the offset of its writer
write_part(file, offset, model) ==
    [file EXCEPT !.parts[offset + 1] = model]

\* pickle.load succeeds on a file that holds every part of one artifact
unpickles(file) ==
    /\ file.exists
    /\ \A i \in 1..ArtifactParts :
           file.parts[i] # 0 /\ file.parts[i] = file.parts[1]

\* forecast values are counted in millionths
Scale == 10 ^ 6

\* weather_data['list'][:24]
ForecastPoints == 24

WholeList(n) == n

\* weather_data['list'][:24]: the number of entries the loop visits
forecast_slice(n) == IF n < ForecastPoints THEN n ELSE ForecastPoints

\* the first prediction stays within 5 of the current AQI
FirstDrift == 5

max_drift_per_hour == 15

max_total_drift == 50

NoClip(x, lo, hi) == x

\* np.clip
clip(x, lo, hi) == IF x < lo THEN lo ELSE IF x > hi THEN hi ELSE x

sign(x) == IF x > 0 THEN 1 ELSE IF x < 0 THEN -1 ELSE 0

\* 0.3 * x
three_tenths(x) == TruncDiv(3 * x, 10)

\* line 322: the pull back of a value that drifted more than 50
rubber_band(predicted, drift) ==
    predicted - three_tenths(drift - sign(drift) * max_total_drift * Scale)

\* lines 303-322: the value before the [0,500] clamp, with the value before
\* the rubber band beside it
constrain(idx, raw_prediction, anchor, history) ==
    IF idx = 0
    THEN LET v == anchor + clip(raw_prediction - anchor,
                                -FirstDrift * Scale, FirstDrift * Scale)
         IN  [stepped |-> v, banded |-> v]
    ELSE LET last == history[Len(history)]
             change_from_previous == raw_prediction - last
             constrained_change ==
                 clip(change_from_previous, -max_drift_per_hour * Scale,
                      max_drift_per_hour * Scale)
             v == last + constrained_change
             drift_from_current == v - anchor
         IN  [stepped |-> v,
              banded |-> IF Abs(drift_from_current) > max_total_drift * Scale
                         THEN rubber_band(v, drift_from_current)
                         ELSE v]

NoRange(predicted_aqi) == predicted_aqi

\* max(0, min(500, predicted_aqi))
valid_range(predicted_aqi) == Max(0, Min(AqiCap * Scale, predicted_aqi))

category_of(predicted_aqi) ==
    IF predicted_aqi <= 50 * Scale THEN "Good"
    ELSE IF predicted_aqi <= 100 * Scale THEN "Satisfactory"
    ELSE IF predicted_aqi <= 200 * Scale THEN "Moderate"
    ELSE IF predicted_aqi <= 300 * Scale THEN "Poor"
    ELSE IF predicted_aqi <= 400 * Scale THEN "Very Poor"
    ELSE "Severe"

\* round(predicted_aqi, 1), in tenths; a tie goes to the even tenth (which
\* way the double nearest a decimal tie falls is not modelled)
round1(x) ==
    LET unit == Scale \div 10
        q == x \div unit
        r == x % unit
    IN  IF 2 * r > unit THEN q + 1
        ELSE IF 2 * r < unit THEN q
        ELSE IF q % 2 = 0 THEN q ELSE q + 1

\* aqi_history.append(predicted_aqi); if len(aqi_history) > 3: pop(0)
update_history(history, predicted_aqi) ==
    LET h == Append(history, predicted_aqi)
    IN  IF Len(h) > 3 THEN Tail(h) ELSE h

(***************************************************************************)
(* views.py, vote_policy                                                   *)
(***************************************************************************)

KeepOldVote(counts, existing_vote) == counts

\* lines 236-241: the count of the vote the user had is taken back
remove_old_vote(counts, existing_vote) ==
    IF existing_vote = "AGREE"
    THEN [counts EXCEPT !.agree_count = counts.agree_count - 1]
    ELSE [counts EXCEPT !.disagree_count = counts.disagree_count - 1]

\* lines 253-257: the count of the new vote goes up
add_new_vote(counts, vote_type) ==
    IF vote_type = "AGREE"
    THEN [counts EXCEPT !.agree_count = counts.agree_count + 1]
    ELSE [counts EXCEPT !.disagree_count = counts.disagree_count + 1]

(***************************************************************************)
(* The inputs of the estimator.                                            *)
(***************************************************************************)

\* the most cars in one photograph
MaxCars == 21

\* the largest doubled Laplacian variance of the finely graded images
MaxLapvar2 == 1004

UnreadableImage ==
    [decodes |-> TRUE, readable |-> FALSE, lapvar2 |-> 0, brightness |-> 0,
     contrast |-> 0, smoke |-> 0, dust |-> 0, fire |-> 0]

UndecodableImage ==
    [decodes |-> FALSE, readable |-> FALSE, lapvar2 |-> 0, brightness |-> 0,
     contrast |-> 0, smoke |-> 0, dust |-> 0, fire |-> 0]

\* <<smoke, dust, fire>> area percentages
RatioChoices ==
    {<<5, 0, 20>>, <<40, 0, 0>>, <<40, 30, 20>>, <<5, 30, 0>>, <<15, 0, 0>>,
     <<5, 5, 5>>, <<30, 20, 10>>}

\* <<brightness, contrast>>: a washed-out image, an ordinary one, and the
\* two at the thresholds of the haze penalty
LightChoices == {<<200, 5>>, <<120, 40>>, <<180, 5>>, <<200, 30>>}

GoodImage(lapvar2, light, ratio) ==
    [decodes |-> TRUE, readable |-> TRUE, lapvar2 |-> lapvar2,
     brightness |-> light[1], contrast |-> light[2],
     smoke |-> ratio[1], dust |-> ratio[2], fire |-> ratio[3]]

\* images of every haziness, of one colour profile
FineImages ==
    {GoodImage(v, l, <<5, 5, 5>>) : v \in 0..MaxLapvar2, l \in LightChoices}

\* images of a few hazinesses, of every colour profile
Images ==
    {GoodImage(v, l, r) : v \in {0, 500, 544, 800, 900, 1200},
                          l \in LightChoices, r \in RatioChoices}
    \cup {UnreadableImage, UndecodableImage}

BaseChoices == {NONE, <<0>>, <<100>>, <<150>>, <<460>>}

ModelChoices == {NONE, <<80>>, <<620>>}

RECURSIVE Rep(_, _)
Rep(x, n) == IF n = 0 THEN <<>> ELSE <<x>> \o Rep(x, n - 1)

\* what the detector finds in the photograph
Scenes ==
    {Rep("car", n) : n \in 0..MaxCars}
    \cup {<<"train">>, <<"bicycle">>, <<"person">>, <<"bus", "bus">>,
          <<"bus", "truck", "train">>, <<"train", "train", "train">>,
          <<"car", "motorcycle", "bicycle", "person", "truck">>,
          Rep("bus", 4) \o Rep("motorcycle", 8),
          Rep("truck", 11) \o Rep("bus", 10)}

YoloStates == {"unavailable", "no_model", "raises", "ok"}

(***************************************************************************)
(* The inputs of the predictor.                                            *)
(***************************************************************************)

\* the largest PM2.5 the secondary feed reports, in tenths
MaxPm25 == 6000

\* the longest list of a weather payload
MaxWeather == 7

Cities == {"Delhi", "New Delhi"}

PrimaryAqiChoices == {0, 20, 50, 150, 490, 500, 999}

PrimaryFeed ==
    {[kind |-> "ok", aqi |-> a, pm25 |-> 0, city |-> "Delhi, India"] :
        a \in PrimaryAqiChoices}
    \cup {[kind |-> k, aqi |-> 0, pm25 |-> 0, city |-> ""] :
              k \in PrimaryFailures}

SecondaryFeed(pm25s) ==
    {[kind |-> "ok", pm25 |-> p] : p \in pm25s}
    \cup {[kind |-> k, pm25 |-> 0] : k \in SecondaryFailures}

NoReading ==
    [op |-> "none", city |-> "",
     primary |-> [kind |-> "error", aqi |-> 0, pm25 |-> 0, city |-> ""],
     secondary |-> [kind |-> "geo_error", pm25 |-> 0],
     out |-> [aqi |-> DefaultAqi, pm25 |-> 0, city |-> "",
              source |-> "default", requests |-> <<>>]]

\* the payload of get_weather_forecast: None, a dict without 'list', or a
\* dict whose 'list' has n entries; `bad` is the place of the first entry
\* that lacks 'dt', 'main' or 'wind', 0 when every entry has them
NoWeather == [kind |-> "none", n |-> 0, bad |-> 0]

WeatherChoices ==
    {NoWeather, [kind |-> "nolist", n |-> 0, bad |-> 0]}
    \cup {[kind |-> "list", n |-> n, bad |-> 0] : n \in 0..MaxWeather}
    \cup {[kind |-> "list", n |-> 2, bad |-> 2]}

\* what the regressor answers: averages of training targets, all in [0,500]
RawChoices == {0, 50040000, 160 * Scale, 500 * Scale}

\* the feeds of a forecast request: <<primary, secondary>>
ForecastFeeds ==
    {<<[kind |-> "ok", aqi |-> a, pm25 |-> 0, city |-> "Delhi, India"],
       [kind |-> "geo_error", pm25 |-> 0]>> : a \in {50, 150, 490, 999}}
    \cup {<<[kind |-> "error", aqi |-> 0, pm25 |-> 0, city |-> ""],
            [kind |-> "ok", pm25 |-> 5600]>>}

\* city names, character by character
Delhi == <<"D", "e", "l", "h", "i">>

CityNames ==
    {Delhi, <<"d", "e", "l", "h", "i">>,
     <<"N", "e", "w", " ", "D", "e", "l", "h", "i">>}

\* the keys under which ml_models/ can hold a model
ModelKeys == {get_model_path(c) : c \in CityNames}

\* the most explicit train_model calls in one run
MaxRetrains == 2

\* the longest 'list' of the weather payloads of the service runs
MaxLongWeather == 26

\* the service runs: one anchor, one answer of the regressor, every length
\* of the weather list up to MaxLongWeather, a malformed entry anywhere in
\* the first places
ServiceFeeds ==
    {<<[kind |-> "ok", aqi |-> 150, pm25 |-> 0, city |-> "Delhi, India"],
       [kind |-> "geo_error", pm25 |-> 0]>>}

ServiceWeather ==
    {NoWeather, [kind |-> "nolist", n |-> 0, bad |-> 0]}
    \cup {[kind |-> "list", n |-> n, bad |-> 0] : n \in 0..MaxLongWeather}
    \cup {[kind |-> "list", n |-> 3, bad |-> b] : b \in 1..3}

ServiceRaws == {160 * Scale}

NoRequest == [city |-> <<>>, store |-> "ok", weather |-> NoWeather]

\* the most requests for one city in progress at once
MaxWorkers == 2

Workers == 1..MaxWorkers

IdleWorker == [pc |-> "idle", kind |-> "none", offset |-> 0, got |-> 0]

\* the users who vote on the policy
Users == {"asha", "ravi"}

\* request.POST.get('vote'): the two votes and something else
VoteChoices == {"AGREE", "DISAGREE", "MAYBE"}

\* the most vote_policy requests in progress at once
MaxBallots == 2

Ballots == 1..MaxBallots

\* the most vote_policy requests in one run
MaxVoteRequests == 3

NoCounts == [agree_count |-> 0, disagree_count |-> 0]

NoVotes == [u \in Users |-> "None"]

IdleVoter ==
    [pc |-> "idle", user |-> "", vote |-> "None", policy |-> NoCounts,
     existing_vote |-> "None", status |-> 0,
     before |-> [policy |-> NoCounts, votes |-> NoVotes]]

(***************************************************************************)
(* The operations.                                                         *)
(***************************************************************************)

Init ==
    /\ call = [op |-> "none", image |-> UndecodableImage, base_aqi |-> NONE,
               model |-> NONE, yolo |-> "unavailable", boxes |-> <<>>]
    /\ result = cv_error_result(NONE)
    /\ reading = NoReading
    /\ pc = "idle"
    /\ current_aqi = 0
    /\ weather = NoWeather
    /\ aqi_history = <<>>
    /\ trace = <<>>
    /\ predictions = <<>>
    /\ request = NoRequest
    /\ loaded = 0
    /\ files = [k \in ModelKeys |-> 0]
    /\ retrains = 0
    /\ disk = [exists |-> FALSE, parts |-> [i \in 1..ArtifactParts |-> 0]]
    /\ worker = [w \in Workers |-> IdleWorker]
    /\ policy = NoCounts
    /\ votes = NoVotes
    /\ voter = [b \in Ballots |-> IdleVoter]
    /\ served = 0

\* get_detector().predict_aqi_from_image(image_path, base_aqi)
Estimate ==
    /\ call.op = "none"
    /\ \E img \in Images \cup FineImages, base_aqi \in BaseChoices,
         model \in ModelChoices :
        /\ call' = [op |-> "estimate", image |-> img, base_aqi |-> base_aqi,
                    model |-> model, yolo |-> "unavailable", boxes |-> <<>>]
        /\ result' = cv_predict_aqi_from_image(img, base_aqi, model)
    /\ UNCHANGED <<readingVars, forecastVars, storeVars, raceVars, voteVars>>

\* get_enhanced_detector().predict_aqi_from_image(image_path, base_aqi)
EstimateWithObjectDetection ==
    /\ call.op = "none"
    /\ \E img \in Images, base_aqi \in BaseChoices, model \in ModelChoices,
         yolo \in YoloStates, boxes \in Scenes :
        /\ yolo # "ok" => boxes = <<>>
        /\ call' = [op |-> "enhanced", image |-> img, base_aqi |-> base_aqi,
                    model |-> model, yolo |-> yolo, boxes |-> boxes]
        /\ result' = enhanced_predict_aqi_from_image(img, base_aqi, model,
                                                     yolo, boxes)
    /\ UNCHANGED <<readingVars, forecastVars, storeVars, raceVars, voteVars>>

\* the view has used the dict; the singleton detectors keep no state
EstimateDone ==
    /\ call.op # "none"
    /\ call' = [op |-> "none", image |-> UndecodableImage, base_aqi |-> NONE,
                model |-> NONE, yolo |-> "unavailable", boxes |-> <<>>]
    /\ result' = cv_error_result(NONE)
    /\ UNCHANGED <<readingVars, forecastVars, storeVars, raceVars, voteVars>>

\* get_current_aqi(city)
GetCurrentAqi ==
    /\ reading.op = "none"
    /\ \E city \in Cities, primary \in PrimaryFeed,
         secondary \in SecondaryFeed(0..MaxPm25) :
        /\ primary.kind = "ok" => secondary.pm25 = 0
        /\ reading' = [op |-> "get_current_aqi", city |-> city,
                       primary |-> primary, secondary |-> secondary,
                       out |-> get_current_aqi(city, primary, secondary)]
    /\ UNCHANGED <<imageVars, forecastVars, storeVars, raceVars, voteVars>>

\* the caller has used the reading
ReadingDone ==
    /\ reading.op # "none"
    /\ reading' = NoReading
    /\ UNCHANGED <<imageVars, forecastVars, storeVars, raceVars, voteVars>>

\* predict_aqi(city) up to the for loop: a new predictor, the model loaded
\* or trained and saved, the anchor, the weather payload
PredictStartOn(cities, feedChoices, weatherChoices, storeAnswers) ==
    /\ pc = "idle"
    /\ \E city \in cities, feeds \in feedChoices, w \in weatherChoices,
         io \in storeAnswers :
        LET store == load_or_train(files, city, io)
            current == get_current_aqi(city, feeds[1], feeds[2])
        IN  /\ request' = [city |-> city, store |-> io, weather |-> w]
            /\ loaded' = store.loaded
            /\ files' = store.files
            /\ trace' = <<>>
            /\ predictions' = <<>>
            /\ IF store.raised
               THEN /\ pc' = "raised"
                    /\ current_aqi' = 0
                    /\ weather' = NoWeather
                    /\ aqi_history' = <<>>
               ELSE /\ pc' = IF w.kind = "list" THEN "loop" ELSE "done"
                    /\ current_aqi' = current.aqi * Scale
                    /\ weather' = w
                    /\ aqi_history' =
                            <<current.aqi * Scale, current.aqi * Scale>>
    /\ UNCHANGED <<retrains, imageVars, readingVars, raceVars, voteVars>>

PredictStart ==
    PredictStartOn({Delhi}, ForecastFeeds, WeatherChoices, {"ok"})

ServicePredictStart ==
    PredictStartOn(CityNames, ServiceFeeds, ServiceWeather, StoreAnswers)

\* one iteration of the for loop, for the raw answer of the regressor
PredictStepOn(rawChoices) ==
    /\ pc = "loop"
    /\ Len(predictions) < forecast_slice(weather.n)
    /\ Len(predictions) + 1 # weather.bad
    /\ \E raw_prediction \in rawChoices :
        LET idx == Len(predictions)
            c == constrain(idx, raw_prediction, current_aqi, aqi_history)
            predicted_aqi == valid_range(c.banded)
        IN  /\ predictions' =
                    Append(predictions,
                           [aqi |-> round1(predicted_aqi),
                            category |-> category_of(predicted_aqi)])
            /\ trace' =
                    Append(trace,
                           [raw_prediction |-> raw_prediction,
                            aqi_lag_1 |-> aqi_history[Len(aqi_history)],
                            aqi_lag_3 |-> aqi_history[Len(aqi_history) - 1],
                            stepped |-> c.stepped, banded |-> c.banded,
                            predicted_aqi |-> predicted_aqi])
            /\ aqi_history' = update_history(aqi_history, predicted_aqi)
    /\ UNCHANGED <<pc, current_aqi, weather, request, loaded, storeVars,
                   imageVars, readingVars, raceVars, voteVars>>

PredictStep == PredictStepOn(RawChoices)

ServicePredictStep == PredictStepOn(ServiceRaws)

\* the iteration over an entry without 'dt', 'main' or 'wind': the
\* KeyError leaves predict_aqi
PredictRaise ==
    /\ pc = "loop"
    /\ Len(predictions) < forecast_slice(weather.n)
    /\ Len(predictions) + 1 = weather.bad
    /\ pc' = "raised"
    /\ UNCHANGED <<current_aqi, weather, aqi_history, trace, predictions,
                   request, loaded, storeVars, imageVars, readingVars,
                   raceVars, voteVars>>

\* return predictions
PredictReturn ==
    /\ pc = "loop"
    /\ Len(predictions) = forecast_slice(weather.n)
    /\ pc' = "done"
    /\ UNCHANGED <<current_aqi, weather, aqi_history, trace, predictions,
                   request, loaded, storeVars, imageVars, readingVars,
                   raceVars, voteVars>>

\* the caller has the forecast or the exception; the predictor of the
\* request is dropped, the files stay
PredictDone ==
    /\ pc \in {"done", "raised"}
    /\ pc' = "idle"
    /\ current_aqi' = 0
    /\ weather' = NoWeather
    /\ aqi_history' = <<>>
    /\ trace' = <<>>
    /\ predictions' = <<>>
    /\ request' = NoRequest
    /\ loaded' = 0
    /\ UNCHANGED <<storeVars, imageVars, readingVars, raceVars, voteVars>>

\* train_model(city): a new predictor fits a model and saves it over
\* whatever the key holds
TrainModel ==
    /\ pc = "idle"
    /\ retrains < MaxRetrains
    /\ \E city \in CityNames, io \in {"ok", "unwritable"} :
        files' = IF io = "ok"
                 THEN save_model(files, get_model_path(city),
                                 new_model(files))
                 ELSE files
    /\ retrains' = retrains + 1
    /\ UNCHANGED <<forecastVars, imageVars, readingVars, raceVars, voteVars>>

\* A request for the city arrives in process w while others may be in
\* progress: a forecast tests os.path.exists(model_path) (line 241) and
\* goes on to load_model or to train_model, a retrain goes to train_model.
RaceRequest(w) ==
    /\ worker[w].pc = "idle"
    /\ \E kind \in {"predict", "retrain"} :
        worker' = [worker EXCEPT
                      ![w] = [pc |-> IF kind = "predict" /\ disk.exists
                                     THEN "load" ELSE "train",
                              kind |-> kind, offset |-> 0, got |-> 0]]
    /\ UNCHANGED <<disk, imageVars, readingVars, forecastVars, storeVars,
                   voteVars>>

\* load_model: the file is opened and unpickled as it is at this moment
RaceLoad(w) ==
    /\ worker[w].pc = "load"
    /\ worker' = [worker EXCEPT
                     ![w].pc = IF unpickles(disk) THEN "done" ELSE "raised",
                     ![w].got = IF unpickles(disk) THEN disk.parts[1] ELSE 0]
    /\ UNCHANGED <<disk, imageVars, readingVars, forecastVars, storeVars,
                   voteVars>>

\* train_model up to the open(model_path, 'wb') of save_model, which
\* truncates the file
RaceTrain(w) ==
    /\ worker[w].pc = "train"
    /\ disk' = truncated
    /\ worker' = [worker EXCEPT ![w].pc = "write", ![w].offset = 0,
                                ![w].got = w]
    /\ UNCHANGED <<imageVars, readingVars, forecastVars, storeVars,
                   voteVars>>

\* pickle.dump: the next part of the artifact of process w goes to the
\* file; after the last one the file is closed
RaceWrite(w) ==
    /\ worker[w].pc = "write"
    /\ disk' = write_part(disk, worker[w].offset, w)
    /\ worker' = [worker EXCEPT
                     ![w].offset = worker[w].offset + 1,
                     ![w].pc = IF worker[w].offset + 1 = ArtifactParts
                               THEN "done" ELSE "write"]
    /\ UNCHANGED <<imageVars, readingVars, forecastVars, storeVars,
                   voteVars>>

\* the request of process w is answered, or has failed
RaceDone(w) ==
    /\ worker[w].pc \in {"done", "raised"}
    /\ worker' = [worker EXCEPT ![w] = IdleWorker]
    /\ UNCHANGED <<disk, imageVars, readingVars, forecastVars, storeVars,
                   voteVars>>

\* lines 223-229: a POST of `vote` by `user` reaches request b; the policy
\* row is fetched, an invalid vote is answered with 400
VoteRequestOf(b, user, vote) ==
    /\ voter[b].pc = "idle"
    /\ served < MaxVoteRequests
    /\ voter' = [voter EXCEPT
                    ![b] = [pc |-> IF vote \in {"AGREE", "DISAGREE"}
                                   THEN "lookup" ELSE "responded",
                            user |-> user, vote |-> vote, policy |-> policy,
                            existing_vote |-> "None",
                            status |-> IF vote \in {"AGREE", "DISAGREE"}
                                       THEN 0 ELSE 400,
                            before |-> [policy |-> policy, votes |-> votes]]]
    /\ UNCHANGED <<policy, votes, served, imageVars, readingVars,
                   forecastVars, storeVars, raceVars>>

\* a request while others may be in progress
VoteRequest(b) ==
    \E user \in Users, vote \in VoteChoices : VoteRequestOf(b, user, vote)

\* a request while no other is in progress
VoteRequestAlone(b) ==
    /\ \A o \in Ballots : voter[o].pc = "idle"
    /\ \E user \in Users, vote \in VoteChoices : VoteRequestOf(b, user, vote)

\* line 232: PolicyVote.objects.filter(user, policy).first()
VoteLookup(b) ==
    /\ voter[b].pc = "lookup"
    /\ voter' = [voter EXCEPT ![b].pc = "write",
                              ![b].existing_vote = votes[voter[b].user]]
    /\ UNCHANGED <<policy, votes, served, imageVars, readingVars,
                   forecastVars, storeVars, raceVars>>

\* lines 234-250: the count of the old vote is taken back in the fetched
\* policy and the row is saved, or a row is created; unique_together makes
\* the INSERT fail when the user has a row by now
VoteWrite(b) ==
    /\ voter[b].pc = "write"
    /\ IF voter[b].existing_vote # "None"
       THEN /\ votes' = [votes EXCEPT ![voter[b].user] = voter[b].vote]
            /\ voter' = [voter EXCEPT
                            ![b].pc = "save",
                            ![b].policy =
                                remove_old_vote(voter[b].policy,
                                                voter[b].existing_vote)]
       ELSE IF votes[voter[b].user] # "None"
       THEN /\ votes' = votes
            /\ voter' = [voter EXCEPT ![b].pc = "responded",
                                      ![b].status = 500]
       ELSE /\ votes' = [votes EXCEPT ![voter[b].user] = voter[b].vote]
            /\ voter' = [voter EXCEPT ![b].pc = "save"]
    /\ UNCHANGED <<policy, served, imageVars, readingVars, forecastVars,
                   storeVars, raceVars>>

\* lines 252-259: the count of the new vote goes up in the fetched policy,
\* policy.save() writes both counts
VoteSave(b) ==
    /\ voter[b].pc = "save"
    /\ policy' = add_new_vote(voter[b].policy, voter[b].vote)
    /\ voter' = [voter EXCEPT
                    ![b].pc = "responded", ![b].status = 200,
                    ![b].policy = add_new_vote(voter[b].policy,
                                               voter[b].vote)]
    /\ UNCHANGED <<votes, served, imageVars, readingVars, forecastVars,
                   storeVars, raceVars>>

\* the response is sent
VoteRespond(b) ==
    /\ voter[b].pc = "responded"
    /\ voter' = [voter EXCEPT ![b] = IdleVoter]
    /\ served' = served + 1
    /\ UNCHANGED <<policy, votes, imageVars, readingVars, forecastVars,
                   storeVars, raceVars>>

Next == Estimate \/ EstimateWithObjectDetection \/ EstimateDone

\* the image estimator
Spec == Init /\ [][Next]_vars

NextReading == GetCurrentAqi \/ ReadingDone

\* the current-reading lookup
SpecReading == Init /\ [][NextReading]_vars

NextForecast ==
    PredictStart \/ PredictStep \/ PredictRaise \/ PredictReturn
    \/ PredictDone

\* the forecast
SpecForecast == Init /\ [][NextForecast]_vars

NextService ==
    ServicePredictStart \/ ServicePredictStep \/ PredictRaise
    \/ PredictReturn \/ PredictDone \/ TrainModel

\* the forecast service with its model store
SpecService == Init /\ [][NextService]_vars

NextRace ==
    \E w \in Workers :
        RaceRequest(w) \/ RaceLoad(w) \/ RaceTrain(w) \/ RaceWrite(w)
        \/ RaceDone(w)

\* concurrent requests on the model file of one city
SpecRace == Init /\ [][NextRace]_vars

NextVotes ==
    \E b \in Ballots :
        VoteRequestAlone(b) \/ VoteLookup(b) \/ VoteWrite(b) \/ VoteSave(b)
        \/ VoteRespond(b)

\* vote_policy requests one at a time
SpecVotes == Init /\ [][NextVotes]_vars

NextVoteRace ==
    \E b \in Ballots :
        VoteRequest(b) \/ VoteLookup(b) \/ VoteWrite(b) \/ VoteSave(b)
        \/ VoteRespond(b)

\* vote_policy requests in any interleaving
SpecVoteRace == Init /\ [][NextVoteRace]_vars

(***************************************************************************)
(* Properties of the image estimator.                                      *)
(***************************************************************************)

\* what estimate alone returns for the inputs of the last call
HazeResult ==
    cv_predict_aqi_from_image(call.image, call.base_aqi, call.model)

\* what the object detector returns for the inputs of the last call
YoloResult == detect_objects(call.yolo, call.boxes)

Returned == call.op \in {"estimate", "enhanced"}

DetectorFailed == call.yolo \in {"unavailable", "no_model", "raises"}

PollutionSources ==
    {"SMOKE", "DUST", "FIRE", "VEHICLE", "CONSTRUCTION", "UNKNOWN"}

\* the alert tiers as the specification states them
StatedHealthAlert(aqi) ==
    IF aqi <= 100 THEN "LOW"
    ELSE IF aqi <= 200 THEN "MODERATE"
    ELSE IF aqi <= 300 THEN "HIGH"
    ELSE "SEVERE"

\* C2 as stated: in the combined estimate a haze source of SMOKE is always
\* the combined source, whatever the vehicle rise.
C2_SmokeAlways ==
    (call.op = "enhanced" /\ HazeResult.pollution_source = "SMOKE")
        => result.pollution_source = "SMOKE"

\* C2 as amended: a haze source of SMOKE is the combined source whenever
\* the vehicle rise does not exceed the haze rise; when vehicles were counted
\* and their rise exceeds the haze rise, the detector's label replaces it.
C2_SmokeUnlessOutweighed ==
    (call.op = "enhanced" /\ HazeResult.pollution_source = "SMOKE")
        => /\ YoloResult.aqi_rise <= HazeResult.aqi_rise
                => result.pollution_source = "SMOKE"
           /\ ( /\ call.base_aqi # NONE
                /\ YoloResult.has_vehicles
                /\ YoloResult.aqi_rise > HazeResult.aqi_rise )
                => result.pollution_source = YoloResult.pollution_source

\* C2 witness: smoke in the haze, a significant vehicle rise that does not
\* exceed the haze rise, and SMOKE returned.
C2_Witness ==
    /\ call.op = "enhanced" /\ call.yolo = "ok" /\ call.base_aqi # NONE
    /\ HazeResult.pollution_source = "SMOKE"
    /\ YoloResult.has_vehicles
    /\ YoloResult.aqi_rise > SignificantRise
    /\ YoloResult.aqi_rise <= HazeResult.aqi_rise
    /\ result.pollution_source = "SMOKE"

\* C3 as stated: whatever the detector finds, the combined rise is the haze
\* rise plus the detector's vehicle rise.
C3_RiseIsSum ==
    (call.op = "enhanced" /\ call.yolo = "ok" /\ call.base_aqi # NONE)
        => result.aqi_rise = HazeResult.aqi_rise + YoloResult.aqi_rise

\* C4 as stated: the returned pollution source is always one of the six
\* labels.
C4_SourceIsLabel ==
    Returned => result.pollution_source \in PollutionSources

\* C5 as stated: with a baseline supplied estimate returns
\* min(500, baseline + rise); without one, the learned model's prediction,
\* or 150 when that model is not loaded.
C5_BaselineUsed ==
    call.op = "estimate"
        => IF call.base_aqi # NONE
           THEN result.predicted_aqi
                    = Min(500, call.base_aqi[1] + result.aqi_rise)
           ELSE result.predicted_aqi
                    = (IF call.model # NONE THEN call.model[1] ELSE 150)

\* C6 as stated: in both estimates the alert level is the stated function
\* of the predicted AQI.
C6_AlertIsStatedTier ==
    Returned
        => result.health_alert_level = StatedHealthAlert(result.predicted_aqi)

\* C7 as stated: the predicted AQI of every estimate lies in [0,500].
C7_PredictedInRange ==
    Returned => result.predicted_aqi \in 0..500

\* C9 as stated: the rise of estimate is haziness * 100 rounded to the
\* nearest integer.
C9_RiseIsRounded ==
    (call.op = "estimate" /\ ~result.error)
        => result.aqi_rise = RoundedRise(result.haziness_score)

\* C9 as amended: when the image decodes the rise is haziness * 100 cut to an
\* integer, never rounded up: rise <= haziness * 100 <= rise + 1, the upper
\* bound met only where the double product falls just under an integer;
\* when the image does not decode the rise is 0 beside the default
\* haziness 0.5.
C9_RiseIsTruncated ==
    call.op = "estimate"
        => IF result.error
           THEN result.aqi_rise = 0 /\ result.haziness_score = 500
           ELSE /\ result.aqi_rise * 10 <= result.haziness_score
                /\ result.haziness_score <= result.aqi_rise * 10 + 10
                /\ result.haziness_score = result.aqi_rise * 10 + 10
                       => result.haziness_score \in FloatShort

\* C9 witness: haziness 0.456 gives a rise of 45.
C9_Witness ==
    /\ call.op = "estimate" /\ ~result.error
    /\ result.haziness_score = 456
    /\ result.aqi_rise = 45

\* C10 as stated: when the object detector fails or is unavailable the
\* combined estimate equals the estimate of the haze alone.
C10_DegradesToHaze ==
    (call.op = "enhanced" /\ DetectorFailed)
        => /\ result.predicted_aqi = HazeResult.predicted_aqi
           /\ result.aqi_rise = HazeResult.aqi_rise
           /\ result.pollution_source = HazeResult.pollution_source
           /\ result.health_alert_level = HazeResult.health_alert_level

\* C11 as stated: in the combined estimate, when the haze source is not
\* SMOKE and the detector's vehicle rise is above 20 or above the haze rise,
\* the combined source is the detector's label; when the haze source is not
\* SMOKE and the vehicle rise is neither, the haze source is kept.
C11_VehicleLabelWhenSignificant ==
    ( /\ call.op = "enhanced" /\ call.yolo = "ok" /\ call.base_aqi # NONE
      /\ HazeResult.pollution_source # "SMOKE" )
        => IF \/ YoloResult.aqi_rise > 20
              \/ YoloResult.aqi_rise > HazeResult.aqi_rise
           THEN result.pollution_source = YoloResult.pollution_source
           ELSE result.pollution_source = HazeResult.pollution_source

\* the fields every estimate carries
RequiredFields ==
    {"predicted_aqi", "base_aqi", "aqi_rise", "haziness_score",
     "pollution_source", "health_alert_level"}

\* C22: every call of either estimate returns a dict with the required
\* fields; an image that does not decode gives haziness 0.5 and, in the
\* haze estimate, source UNKNOWN with the error field set; an image OpenCV
\* cannot read gives haziness 0.5 and haze source UNKNOWN; an object
\* detector that has no model or raises gives a vehicle count of 0 and
\* leaves rise and source to the haze estimate.
C22_BestEffort ==
    Returned
        => /\ RequiredFields \subseteq DOMAIN result
           /\ result.haziness_score \in 0..1000
           /\ ~call.image.decodes
                  => /\ result.haziness_score = 500
                     /\ call.op = "estimate"
                            => /\ result.pollution_source = "UNKNOWN"
                               /\ result.error
           /\ (call.image.decodes /\ ~call.image.readable)
                  => /\ result.haziness_score = 500
                     /\ call.op = "estimate"
                            => result.pollution_source = "UNKNOWN"
           /\ (call.op = "enhanced" /\ call.yolo \in {"no_model", "raises"})
                  => /\ "vehicle_count" \in DOMAIN result
                            => result.vehicle_count = 0
                     /\ result.aqi_rise = HazeResult.aqi_rise
                     /\ result.pollution_source = HazeResult.pollution_source

\* C22 witness: the image does not decode and the object detector raises;
\* the combined estimate carries haziness 0.5, UNKNOWN and no vehicles.
C22_Witness ==
    /\ call.op = "enhanced" /\ call.yolo = "raises" /\ call.base_aqi # NONE
    /\ ~call.image.decodes
    /\ result.haziness_score = 500
    /\ result.pollution_source = "UNKNOWN"
    /\ result.vehicle_count = 0

\* the weight the specification gives a detected class
StatedWeight(class_name) ==
    CASE class_name = "car" -> 3
      [] class_name = "motorcycle" -> 2
      [] class_name = "bus" -> 10
      [] class_name = "truck" -> 8
      [] class_name = "train" -> 15
      [] OTHER -> 0

RECURSIVE StatedWeightSum(_)
StatedWeightSum(boxes) ==
    IF boxes = <<>> THEN 0
    ELSE StatedWeight(Head(boxes)) + StatedWeightSum(Tail(boxes))

\* C23: the vehicle rise the detector reports is the sum of the weights of
\* the detections, times 1.5 when it counted more than 20 vehicles, times
\* 1.2 when it counted more than 10, cut to an integer and capped at 100;
\* it lies in [0,100].
C23_VehicleRise ==
    (call.op = "enhanced" /\ call.yolo = "ok" /\ call.base_aqi # NONE)
        => LET total == StatedWeightSum(call.boxes)
               counted == result.vehicle_count
               tenfold == IF counted > 20 THEN 15 * total
                          ELSE IF counted > 10 THEN 12 * total
                          ELSE 10 * total
               rise == result.yolo_aqi_rise
           IN  /\ rise \in 0..100
               /\ tenfold >= 1000 => rise = 100
               /\ tenfold < 1000
                      => (10 * rise <= tenfold /\ tenfold < 10 * rise + 10)

\* C23 witness: 21 cars, 63 * 1.5 = 94.5, a rise of 94.
C23_Witness ==
    /\ call.op = "enhanced" /\ call.yolo = "ok" /\ call.base_aqi # NONE
    /\ call.boxes = Rep("car", 21)
    /\ result.vehicle_count = 21
    /\ result.yolo_aqi_rise = 94

\* the label the stated order gives the area percentages of an image
StatedSource(img) ==
    CASE img.fire > 10 -> "FIRE"
      [] img.fire <= 10 /\ img.smoke > 30 -> "SMOKE"
      [] img.fire <= 10 /\ img.smoke <= 30 /\ img.dust > 20 -> "DUST"
      [] img.fire <= 10 /\ img.smoke <= 30 /\ img.dust <= 20
            /\ img.smoke > 10 -> "VEHICLE"
      [] OTHER -> "UNKNOWN"

\* C25: the source of the haze estimate is the first match of fire > 0.10
\* (FIRE), smoke > 0.30 (SMOKE), dust > 0.20 (DUST), smoke > 0.10 (VEHICLE),
\* else UNKNOWN; it is UNKNOWN when OpenCV cannot read the image; asking
\* again for the same image gives the same label.
C25_SourceInOrder ==
    (call.op = "estimate" /\ call.image.decodes)
        => /\ call.image.readable
                  => result.pollution_source = StatedSource(call.image)
           /\ ~call.image.readable => result.pollution_source = "UNKNOWN"
           /\ result.pollution_source = detect_pollution_source(call.image)

\* C25 witness: smoke 40 %, dust 30 %, fire 20 %: FIRE wins.
C25_Witness ==
    /\ call.op = "estimate" /\ call.image.readable
    /\ call.image.smoke = 40 /\ call.image.dust = 30 /\ call.image.fire = 20
    /\ result.pollution_source = "FIRE"

\* C26: the haziness of the haze estimate lies in [0,1]; it is
\* 1 - min(1, variance / 500), plus 0.3 capped at 1 when the mean brightness
\* is above 180 and the contrast below 30; it is 0.5 when OpenCV cannot
\* read the image; a solid gray image of brightness 200 and contrast 5
\* gets the penalty and a haziness of at least 0.3.
C26_Haziness ==
    (call.op = "estimate" /\ call.image.decodes)
        => LET img == call.image
               h == result.haziness_score
               sharp == IF img.lapvar2 >= 1000 THEN 1000 ELSE img.lapvar2
               penalty == img.brightness > 180 /\ img.contrast < 30
           IN  /\ h \in 0..1000
               /\ ~img.readable => h = 500
               /\ (img.readable /\ ~penalty) => h = 1000 - sharp
               /\ (img.readable /\ penalty /\ sharp >= 300)
                      => h = 1000 - sharp + 300
               /\ (img.readable /\ penalty /\ sharp < 300) => h = 1000
               /\ (img.readable /\ img.brightness = 200 /\ img.contrast = 5)
                      => h >= 300

\* C26 witness: brightness 200, contrast 5, variance 250: 0.5 + 0.3 = 0.8.
C26_Witness ==
    /\ call.op = "estimate" /\ call.image.readable
    /\ call.image.brightness = 200 /\ call.image.contrast = 5
    /\ call.image.lapvar2 = 500
    /\ result.haziness_score = 800

(***************************************************************************)
(* Properties of the predictor.                                            *)
(***************************************************************************)

\* C1 as stated: in a returned forecast anchored to a reading in [0,500],
\* every point after the first is within 50 of the anchor, up to the
\* rounding of the reported value to one decimal.
C1_WithinFiftyOfAnchor ==
    (pc = "done" /\ current_aqi \in 0..(AqiCap * Scale))
        => \A i \in 2..Len(predictions) :
               Abs(predictions[i].aqi * (Scale \div 10) - current_aqi)
                   <= max_total_drift * Scale + Scale \div 20

\* C8 as stated: the AQI of every reading get_current_aqi returns lies in
\* [0,500], whichever feed produced it.
C8_ReadingInRange ==
    reading.op = "get_current_aqi" => reading.out.aqi \in 0..500

\* C12 as stated: the first point of a returned forecast is within 5 of the
\* anchor the reading carried, up to the rounding of the reported value to
\* one decimal, whatever the regressor answered.
C12_FirstPointNearAnchor ==
    (pc = "done" /\ Len(predictions) >= 1)
        => Abs(predictions[1].aqi * (Scale \div 10) - current_aqi)
               <= FirstDrift * Scale + Scale \div 20

\* C13: for every point after the first, the value before the rubber band
\* is at most 15 away from the AQI of the point before it: from the clamped
\* value the loop carried over, and from the value that point reports, up
\* to its rounding to one decimal.
C13_StepWithinFifteen ==
    \A i \in 2..Len(trace) :
        /\ Abs(trace[i].stepped - trace[i - 1].predicted_aqi)
               <= max_drift_per_hour * Scale
        /\ Abs(trace[i].stepped - predictions[i - 1].aqi * (Scale \div 10))
               <= max_drift_per_hour * Scale + Scale \div 20

\* C13 witness: the regressor asks for a change of more than 15 from the
\* point before and the step taken is 15.
C13_Witness ==
    \E i \in 2..Len(trace) :
        /\ Abs(trace[i].raw_prediction - trace[i - 1].predicted_aqi)
               > max_drift_per_hour * Scale
        /\ Abs(trace[i].stepped - trace[i - 1].predicted_aqi)
               = max_drift_per_hour * Scale

\* C14: every point of the forecast reports an AQI in [0,500], and the value
\* the loop appends to the AQI history, which the next iteration reads as
\* its lag, is the value after the clamp to [0,500].
C14_ClampedAndFedBack ==
    /\ \A i \in 1..Len(predictions) : predictions[i].aqi \in 0..(AqiCap * 10)
    /\ \A i \in 1..Len(trace) :
           /\ trace[i].predicted_aqi \in 0..(AqiCap * Scale)
           /\ trace[i].predicted_aqi
                  = (IF trace[i].banded < 0 THEN 0
                     ELSE IF trace[i].banded > AqiCap * Scale
                     THEN AqiCap * Scale
                     ELSE trace[i].banded)
           /\ i > 1 => trace[i].aqi_lag_1 = trace[i - 1].predicted_aqi
    /\ Len(trace) >= 1
           => aqi_history[Len(aqi_history)] = trace[Len(trace)].predicted_aqi

\* C14 witness: a value above 500 before the clamp, 500 reported, and 500
\* read back as the lag of the next iteration.
C14_Witness ==
    \E i \in 2..Len(trace) :
        /\ trace[i - 1].banded > AqiCap * Scale
        /\ predictions[i - 1].aqi = AqiCap * 10
        /\ trace[i].aqi_lag_1 = AqiCap * Scale

\* the categories as the specification states them, for an AQI in tenths
StatedCategory(tenths) ==
    IF tenths <= 500 THEN "Good"
    ELSE IF tenths <= 1000 THEN "Satisfactory"
    ELSE IF tenths <= 2000 THEN "Moderate"
    ELSE IF tenths <= 3000 THEN "Poor"
    ELSE IF tenths <= 4000 THEN "Very Poor"
    ELSE "Severe"

\* C15 as stated: the category of every point of the forecast is the bucket
\* of the AQI that point reports, the boundaries 50, 100, 200, 300 and 400
\* belonging to the lower bucket.
C15_CategoryOfReported ==
    \A i \in 1..Len(predictions) :
        predictions[i].category = StatedCategory(predictions[i].aqi)

\* the number of times a request occurs in the requests sent
Sent(requests, r) == Cardinality({i \in 1..Len(requests) : requests[i] = r})

\* C16: get_current_aqi asks the primary feed first and once; when it
\* succeeds nothing else is asked and its reading is returned; only when it
\* fails or is malformed the secondary feed is asked, once (the geocoding
\* request and, if that succeeds, the air-pollution request), and its PM2.5
\* is converted; only when both fail the reading is the default, AQI 150
\* for the city asked for. A reading is returned in every case.
C16_FeedsInOrder ==
    reading.op = "get_current_aqi"
        => LET out == reading.out
               requests == out.requests
           IN  /\ Len(requests) >= 1 /\ requests[1] = "waqi"
               /\ \A r \in {"waqi", "geo", "air"} : Sent(requests, r) <= 1
               /\ reading.primary.kind = "ok"
                      => /\ requests = <<"waqi">>
                         /\ out.source = "primary"
                         /\ out.aqi = reading.primary.aqi
               /\ reading.primary.kind # "ok"
                      => /\ Len(requests) >= 2 /\ requests[2] = "geo"
                         /\ Sent(requests, "air") = 1 => requests[3] = "air"
               /\ (reading.primary.kind # "ok" /\ reading.secondary.kind = "ok")
                      => /\ out.source = "secondary"
                         /\ requests = <<"waqi", "geo", "air">>
                         /\ out.aqi
                                = calculate_aqi_from_pm25(reading.secondary.pm25)
               /\ (reading.primary.kind # "ok" /\ reading.secondary.kind # "ok")
                      => /\ out.source = "default"
                         /\ out.aqi = DefaultAqi
                         /\ out.city = reading.city

\* C16 witness: the primary feed answers with a malformed payload, the
\* secondary feed is asked once and its reading is returned.
C16_Witness ==
    /\ reading.op = "get_current_aqi"
    /\ reading.primary.kind = "malformed"
    /\ reading.secondary.kind = "ok"
    /\ reading.out.source = "secondary"
    /\ reading.out.requests = <<"waqi", "geo", "air">>

\* C17 as stated: predict_aqi never raises, whatever the feeds answer (a
\* weather list with malformed entries included) and whatever the model
\* store does (no file, a file that cannot be read, a file that cannot be
\* written).
C17_PredictNeverRaises == pc # "raised"

\* C18 as stated: when no weather forecast is available (the request fails,
\* the answer is not 200, or the payload has no 'list'), predict_aqi returns
\* the empty sequence and does not raise.
C18_EmptyWithoutWeather ==
    (pc \in {"done", "raised"} /\ request.weather.kind # "list")
        => (pc = "done" /\ predictions = <<>>)

\* C19 as stated: the sequence predict_aqi returns is empty or has exactly
\* 24 entries, whatever the weather payload.
C19_EmptyOrTwentyFour ==
    pc = "done" => Len(predictions) \in {0, ForecastPoints}

\* C19 as amended: the sequence predict_aqi returns has one entry for each
\* of the first 24 entries of the payload's list: as many as the list has
\* when it has fewer than 24, exactly 24 otherwise, none without a list.
C19_OnePerEntryUpToTwentyFour ==
    pc = "done"
        => /\ Len(predictions) <= ForecastPoints
           /\ request.weather.kind # "list" => Len(predictions) = 0
           /\ (request.weather.kind = "list"
                  /\ request.weather.n < ForecastPoints)
                  => Len(predictions) = request.weather.n
           /\ (request.weather.kind = "list"
                  /\ request.weather.n >= ForecastPoints)
                  => Len(predictions) = ForecastPoints

\* C19 witness: a list of more than 24 entries, 24 points returned.
C19_Witness ==
    /\ pc = "done"
    /\ request.weather.kind = "list"
    /\ request.weather.n > ForecastPoints
    /\ Len(predictions) = ForecastPoints

\* a forecast request starts in this step
RequestStarts == pc = "idle" /\ pc' # "idle"

\* C20: a forecast request for a city whose key holds no model trains one
\* and persists it under the normalised name of the city; a forecast
\* request for a city whose key holds a model loads that model and leaves
\* every file as it is; a persisted model changes only in an explicit
\* train_model call or in the first request for its key.
C20_PersistedModelStable ==
    [][ /\ RequestStarts
            => LET key == get_model_path(request'.city)
               IN  /\ (files[key] = 0 /\ pc' # "raised")
                       => /\ files'[key] # 0
                          /\ loaded' = files'[key]
                          /\ \A k \in ModelKeys : files[k] # files'[key]
                   /\ files[key] # 0
                       => /\ files' = files
                          /\ pc' # "raised" => loaded' = files[key]
        /\ \A k \in ModelKeys :
               files'[k] # files[k]
                   => \/ retrains' = retrains + 1
                      \/ /\ RequestStarts
                         /\ files[k] = 0
                         /\ k = get_model_path(request'.city)
      ]_vars

\* C20 witness: a request for "Delhi" has loaded the model persisted under
\* "delhi" while a later model is persisted under another key, so what it
\* uses was not trained in this request.
C20_Witness ==
    /\ pc = "done"
    /\ request.city = Delhi
    /\ loaded # 0
    /\ loaded = files[<<"d", "e", "l", "h", "i">>]
    /\ \E k \in ModelKeys : files[k] > loaded

\* the AQI range of the bracket a PM2.5 value, in tenths, falls in
StatedAqiRange(pm25) ==
    IF pm25 <= 120 THEN 0..50
    ELSE IF pm25 <= 354 THEN 51..100
    ELSE IF pm25 <= 554 THEN 101..150
    ELSE IF pm25 <= 1504 THEN 151..200
    ELSE IF pm25 <= 2504 THEN 201..300
    ELSE IF pm25 <= 3504 THEN 301..400
    ELSE 401..500

PointOrAnchor(i) == IF i < 0 THEN current_aqi ELSE trace[i + 1].predicted_aqi

\* C27 as stated: the AQI history never holds more than 3 elements; at
\* point i the lag-1 feature is the clamped AQI of point i-1 and the lag-3
\* feature is the AQI of point i-3, the anchor standing in for the points
\* before the start.
C27_LagsOneAndThree ==
    /\ Len(aqi_history) <= 3
    /\ \A k \in 1..Len(trace) :
           /\ trace[k].aqi_lag_1 = PointOrAnchor(k - 2)
           /\ trace[k].aqi_lag_3 = PointOrAnchor(k - 4)

\* C28 as stated: in a returned forecast anchored to a reading in [0,500],
\* consecutive points differ by at most 15 in the values reported, up to
\* their rounding to one decimal.
C28_ConsecutiveWithinFifteen ==
    (pc = "done" /\ current_aqi \in 0..(AqiCap * Scale))
        => \A i \in 2..Len(predictions) :
               Abs(predictions[i].aqi - predictions[i - 1].aqi)
                   <= max_drift_per_hour * 10 + 1

(***************************************************************************)
(* Properties of concurrent requests on one model file.                    *)
(***************************************************************************)

\* C21 as stated: however forecast and retrain requests for one city
\* interleave, no request fails, every request that loads the file gets
\* the whole artifact of one trainer, and once no request is writing the
\* file holds the whole artifact of one trainer.
C21_OverwrittenNotCorrupted ==
    /\ \A w \in Workers : worker[w].pc # "raised"
    /\ \A w \in Workers :
           (worker[w].pc = "done" /\ worker[w].kind = "predict")
               => worker[w].got \in Workers
    /\ (disk.exists /\ \A w \in Workers : worker[w].pc # "write")
           => unpickles(disk)

(***************************************************************************)
(* Properties of vote_policy.                                              *)
(***************************************************************************)

\* the number of users whose PolicyVote row carries the vote
Rows(vote) == Cardinality({u \in Users : votes[u] = vote})

\* no request is between its first read and its last write
Quiet == \A b \in Ballots : voter[b].pc \in {"idle", "responded"}

CountsMatchRows ==
    /\ policy.agree_count = Rows("AGREE")
    /\ policy.disagree_count = Rows("DISAGREE")

\* C29: with requests served one at a time, from zero counts and no votes:
\* after every request agree_count and disagree_count are the numbers of
\* AGREE and DISAGREE rows and are not negative; no request tries to give
\* a user a second row; a request that repeats the user's vote leaves
\* counts and rows as they were; a request with an invalid vote is answered
\* 400 and leaves counts and rows as they were.
C29_CountsFollowVotes ==
    /\ Quiet => /\ CountsMatchRows
                /\ policy.agree_count >= 0
                /\ policy.disagree_count >= 0
    /\ \A b \in Ballots :
           voter[b].pc = "responded"
               => /\ voter[b].status \in {200, 400}
                  /\ voter[b].status = 400 <=> voter[b].vote = "MAYBE"
                  /\ voter[b].status = 400
                         => /\ policy = voter[b].before.policy
                            /\ votes = voter[b].before.votes
                  /\ voter[b].before.votes[voter[b].user] = voter[b].vote
                         => /\ policy = voter[b].before.policy
                            /\ votes = voter[b].before.votes

\* C29 witness: a user who had voted AGREE votes DISAGREE; one count goes
\* down, the other up.
C29_Witness ==
    \E b \in Ballots :
        /\ voter[b].pc = "responded" /\ voter[b].status = 200
        /\ voter[b].before.votes[voter[b].user] = "AGREE"
        /\ voter[b].vote = "DISAGREE"
        /\ policy.agree_count = voter[b].before.policy.agree_count - 1
        /\ policy.disagree_count
               = voter[b].before.policy.disagree_count + 1

\* C30 as stated: however concurrent vote_policy requests interleave, once
\* no request is in progress agree_count and disagree_count are the numbers
\* of AGREE and DISAGREE rows.
C30_NoLostUpdate == Quiet => CountsMatchRows

=============================================================================
